---- MODULE Spec2Model ----
(***************************************************************************)
(* Model of the Agemin SDK verification orchestrator (core/Agemin.ts and   *)
(* core/Modal.ts with utils/cookies.ts, utils/jwt.ts and utils/dom.ts).    *)
(*                                                                         *)
(* One browser page is modelled: the window-scoped global state            *)
(* window.__AGEMIN__, the static flag Agemin.isVerificationActive, the     *)
(* Agemin objects ever constructed (each keeps its message listener for    *)
(* the life of the page), the promises they created, the overlay elements  *)
(* mounted in the document, the pending 300 ms close timers, the keydown   *)
(* listeners, the verification cookie and the clock.                       *)
(*                                                                         *)
(* Every action is one task of the event loop: a caller's API call, the    *)
(* dispatch of one message event to every listener, a click or key press,  *)
(* a timer, or the completion of the asynchronous validateJWT.  The        *)
(* continuation of an awaiting async function runs in the microtask        *)
(* checkpoint that ends the task, so it is part of the same action.        *)
(***************************************************************************)
EXTENDS Integers, Sequences, FiniteSets, TLC

\* ------------------------------------------------------------------ bounds
MaxObjs     == 2   \* Agemin objects constructed during the life of the page
MaxPromises == 4   \* promises the page still refers to at the same time
MaxTimers   == 1   \* close timers pending at the same time
MaxOverlays == 2   \* agemin-overlay elements in the document at the same time
MaxKeys     == 1   \* keydown listeners registered at the same time
MaxVal      == 1   \* validateJWT calls in progress at the same time
MaxTime     == 1   \* clock ticks (epoch seconds, scaled)
MaxClock    == 2   \* clock ticks while the classifier is called

Assets == {"a1", "a2"}
RefIds == {"r1", "r2"}

\* ------------------------------------------------------------------- state
VARIABLES
  obj,       \* the Agemin objects constructed so far, by order of construction
  reg,       \* window.__AGEMIN__.instances: assetId -> object (0 = absent)
  inprog,    \* window.__AGEMIN__.instanceCreationInProgress: set of assetIds
  g,         \* window.__AGEMIN__: isVerifying, referenceId, verification*
  active,    \* Agemin.isVerificationActive
  prom,      \* the promises: state and the promise each one adopted
  wrapped,   \* promises a validateSession() call is awaiting (line 367)
  val,       \* doValidateSession calls suspended in await validateJWT
  dom,       \* agemin-overlay elements of document.body, in document order
  timers,    \* pending setTimeout(cleanup, 300), by owning object, FIFO
  keyH,      \* keydown listeners on document, by owning object, in order
  cookie,    \* the agemin_verification cookies the page sees
  now,       \* the clock
  host,      \* window.location.hostname
  fired,     \* callbacks invoked by the last task
  nav,       \* window.location.href assignment made by the last task
  cachedDetectionResult,  \* the classifier's cache (utils/dom)
  memo,      \* per mode, the classifier result its callers were given last and
             \* when it was computed, while that is less than a minute ago
  last       \* the last task: the operation and the promise handed to the caller

vars == <<obj, reg, inprog, g, active, prom, wrapped, val, dom, timers, keyH,
          cookie, now, host, fired, nav, cachedDetectionResult, memo, last>>

\* ------------------------------------------------------------------ tokens
\* A JWT is named; its properties are the ones jose and the code look at.
NoToken == "none"
Tokens  == {"tGood", "tMinor", "tBadSig", "tExpiring", "tOther", "tGarbage"}

\* the segment structure can be base64/JSON decoded (jose decodeJwt succeeds)
TokDecodable(t) == t # "tGarbage"
\* RS256 signature verifies against RSA_PUBLIC_KEY and iss = agemin.com
TokSigOk(t) == t \in {"tGood", "tMinor", "tExpiring", "tOther", "tNoDomain"}
\* the exp claim
TokExp(t) == IF t = "tExpiring" THEN 1 ELSE MaxTime + 5
\* data.is_of_age === true
TokOfAge(t) == t \in {"tGood", "tBadSig", "tExpiring", "tOther", "tNoDomain"}
\* data.domain, as a sequence of labels and separators (<<>> = absent)
TokDomain(t) == CASE t = "tOther"    -> <<"other", ".", "com">>
                  [] t = "tNoDomain" -> <<>>
                  [] OTHER           -> <<"example", ".", "com">>

\* window.location.hostname of the page
Hostname == <<"shop", ".", "example", ".", "com">>

\* --------------------------------------------------------------- utils/jwt
decodeJWT(t) == IF TokDecodable(t) THEN [ok |-> TRUE, is_of_age |-> TokOfAge(t)]
                ELSE [ok |-> FALSE, is_of_age |-> FALSE]

Lower(s) == CASE s = "EXAMPLE" -> "example"
              [] s = "COM" -> "com"
              [] s = "SHOP" -> "shop"
              [] s = "Mozilla" -> "mozilla"
              [] s = "Chrome" -> "chrome"
              [] s = "Google" -> "google"
              [] OTHER -> s
LowerSeq(q) == [k \in 1..Len(q) |-> Lower(q[k])]

\* currentHostname.split(':')[0]
BeforeColon(q) ==
  IF \E k \in 1..Len(q) : q[k] = ":"
  THEN SubSeq(q, 1, (CHOOSE k \in 1..Len(q) : q[k] = ":" /\ \A j \in 1..(k-1) : q[j] # ":") - 1)
  ELSE q

EndsWith(q, suf) ==
  /\ Len(suf) <= Len(q)
  /\ SubSeq(q, Len(q) - Len(suf) + 1, Len(q)) = suf

Digits   == {"0", "1", "127", "192", "168", "10"}
HexWords == Digits \cup {"fe80", "a", "f"}
IsLocalHostname(h) ==
  \/ h \in {<<"localhost">>, <<"127", ".", "0", ".", "0", ".", "1">>,
            <<":", ":", "1">>, <<"[", ":", ":", "1", "]">>,
            <<"0", ".", "0", ".", "0", ".", "0">>}
  \/ (Len(h) > 0 /\ \A k \in 1..Len(h) : h[k] \in Digits \cup {"."})
  \/ (Len(h) > 0 /\ \A k \in 1..Len(h) : h[k] \in HexWords \cup {":"})

isValidDomain(jwtDomain, currentHostname) ==
  IF jwtDomain = <<>> THEN IsLocalHostname(currentHostname)
  ELSE IF IsLocalHostname(currentHostname) THEN TRUE
  ELSE LET normalizedCurrent == LowerSeq(BeforeColon(currentHostname))
           normalizedJWT     == LowerSeq(jwtDomain)
       IN  \/ normalizedJWT = normalizedCurrent
           \/ EndsWith(normalizedCurrent, <<".">> \o normalizedJWT)

\* jwtVerify rejects a malformed token, a bad signature and exp <= now
validateJWT(t, time) ==
  IF ~TokDecodable(t) \/ ~TokSigOk(t) \/ TokExp(t) <= time
  THEN [isValid |-> FALSE, isOfAge |-> FALSE]
  ELSE IF ~isValidDomain(TokDomain(t), host)
  THEN [isValid |-> FALSE, isOfAge |-> FALSE]
  ELSE [isValid |-> TRUE, isOfAge |-> TokOfAge(t)]

\* --------------------------------------------------------------- utils/dom
\* an origin is a sequence of pieces; includes() is contiguous containment
Includes(q, sub) ==
  \E k \in 0..(Len(q) - Len(sub)) : SubSeq(q, k + 1, k + Len(sub)) = sub

trustedDomains == {<<"agemin", ".", "com">>,
                   <<"verify", ".", "agemin", ".", "com">>,
                   <<"localhost">>}
isTrustedOrigin(origin) == \E d \in trustedDomains : Includes(origin, d)


\* ------------------------------------------------------------ state values
Objs     == 1..MaxObjs
PromIds  == 1..MaxPromises

NoMetadata == "none"                       \* config.metadata === undefined
FreeObj  == [st |-> "free", assetId |-> "a1", referenceId |-> "r1",
             metadata |-> NoMetadata, urls |-> FALSE, cb |-> FALSE, esc |-> FALSE,
             appEventListeners |-> {}]
NoProm   == [st |-> "none", follows |-> 0]
\* what an earlier visit stored: a token and its expiry, or nothing
NoCookie == [tok |-> NoToken, exp |-> 0]
GIdle    == [isVerifying |-> FALSE, referenceId |-> "null", verificationPromise |-> 0,
             verificationResolve |-> 0, verificationReject |-> 0]
NoRet    == [p |-> 0, v |-> "none"]

\* the record of a task: the operation, the promise handed to the caller, for
\* a construction the object returned (0: it threw), for a message event its
\* origin, for a call of a utility its numeric argument
Task(op, ret) ==
  [op |-> op, ret |-> ret, inst |-> 0, origin |-> <<>>, arg |-> 0, emitted |-> <<>>]

\* The promises the page can still reach: the stored promise, the promise of
\* the stored resolve/reject functions, the promises of suspended async
\* functions, and every promise that has adopted one that can still settle.
\* A promise nothing refers to any more can neither be settled nor handed out
\* again.  Promises are numbered in order of creation; at the start of each
\* task the numbers of the unreachable ones are dropped and the others close
\* ranks (Ren), which changes no behaviour.
RECURSIVE Reach(_, _, _)
Reach(pr, F, n) ==
  IF n = 0 THEN F
  ELSE Reach(pr, F \cup ({pr[q].follows : q \in F} \ {0}), n - 1)
RECURSIVE Adopters(_, _, _)
Adopters(pr, F, n) ==
  IF n = 0 THEN F
  ELSE Adopters(pr, F \cup {q \in 1..MaxPromises : pr[q].follows \in F}, n - 1)
Settleable ==
  {p \in ({g.verificationResolve, g.verificationReject}
          \cup {val[k].pd : k \in 1..Len(val)}) \ {0} : prom[p].st = "pending"}
Live ==
  Reach(prom, ({g.verificationPromise} \ {0})
              \cup Adopters(prom, Settleable, MaxPromises), MaxPromises)
RenIn(L, p) == IF p \in L THEN Cardinality({q \in L : q <= p}) ELSE 0
OldIn(L, n) == CHOOSE p \in L : RenIn(L, p) = n
Ren(p) == RenIn(Live, p)

\* the mutable state as one value, so that a handler can call another
Canon(L) ==
  [obj |-> obj, reg |-> reg, inprog |-> inprog,
   g |-> [g EXCEPT !.verificationPromise = RenIn(L, @),
                   !.verificationResolve = RenIn(L, @),
                   !.verificationReject = RenIn(L, @)],
   active |-> active,
   prom |-> [n \in 1..MaxPromises |->
               IF n <= Cardinality(L)
               THEN [st |-> prom[OldIn(L, n)].st,
                     follows |-> RenIn(L, prom[OldIn(L, n)].follows)]
               ELSE [st |-> "none", follows |-> 0]],
   wrapped |-> {RenIn(L, p) : p \in wrapped \cap L},
   val |-> [k \in 1..Len(val) |-> [val[k] EXCEPT !.pd = RenIn(L, @)]],
   dom |-> dom, timers |-> timers, keyH |-> keyH, cookie |-> cookie,
   fired |-> {}, nav |-> "none"]
Cur == CHOOSE S \in {Canon(CHOOSE L \in {Live} : TRUE)} : TRUE

Settled(st) == st \notin {"none", "pending"}
Rejected(st) == st \in {"rej_cancel", "rej_remote", "rej_launch", "rej_cycle",
                        "rej_modalexists", "rej_type"}

\* ----------------------------------------------------------- utils/cookies
\* The jar holds the cookies named agemin_verification that the page sees, in
\* document.cookie order (oldest first).  A cookie is kept under its domain:
\* <<>> for a host-only cookie, otherwise the Domain attribute without its
\* leading dot.  exp 0 marks a session cookie.
EmptyJar == <<>>

\* the strings stored here: token names, the empty string and one text with
\* characters that a cookie value cannot hold
encodeURIComponent(v) == IF v = "a;b=c" THEN "a%3Bb%3Dc" ELSE v
\* a value with a lone "%" is not a valid escape: decodeURIComponent raises
\* URIError, which getCookie lets through to its caller
Malformed == "%"
URIError  == "URIError"
decodeURIComponent(v) ==
  IF v = "a%3Bb%3Dc" THEN "a;b=c" ELSE IF v = Malformed THEN URIError ELSE v

\* /^[\d.]+$/
IsNumericHost(h) == Len(h) > 0 /\ \A k \in 1..Len(h) : h[k] \in Digits \cup {"."}

\* the last two labels of a hostname of two labels or more
ParentDomain(h) == SubSeq(h, Len(h) - 2, Len(h))

\* a top-level label, or a registry suffix under which sites are registered
IsPublicSuffix(d) == Len(d) = 1 \/ d = <<"co", ".", "uk">>

\* the document.cookie setter for 'agemin_verification=<value>; expires;
\* domain; path=/': the value ends at the first ';'; a Domain attribute that
\* is a public suffix names a host-only cookie when it is the host itself and
\* is refused otherwise, and so is one the host does not belong to; exp -1 is
\* an Expires date in the past, which removes the cookie
DocumentCookieSet(jar, h, value, exp, domain) ==
  LET hostOnly == domain = <<>> \/ (IsPublicSuffix(domain) /\ domain = h)
      matches  == domain = h \/ (~IsNumericHost(h) /\ EndsWith(h, <<".">> \o domain))
      refused  == ~hostOnly /\ (IsPublicSuffix(domain) \/ ~matches)
      key      == IF hostOnly THEN <<>> ELSE domain
      rec      == [domain |-> key, tok |-> IF value = "a;b=c" THEN "a" ELSE value,
                   exp |-> exp]
  IN  IF refused THEN jar
      ELSE IF exp = -1 THEN SelectSeq(jar, LAMBDA c : c.domain # key)
      ELSE IF \E k \in 1..Len(jar) : jar[k].domain = key
      THEN [k \in 1..Len(jar) |-> IF jar[k].domain = key THEN rec ELSE jar[k]]
      ELSE Append(jar, rec)

\* setCookie writing a negative lifetime as an Expires date in the past
setCookie_NegativeExpires(jar, value, expiresSeconds, time) ==
  DocumentCookieSet(jar, host, encodeURIComponent(value),
                    IF expiresSeconds > 0 THEN time + expiresSeconds
                    ELSE IF expiresSeconds < 0 THEN -1 ELSE 0,
                    IF host = <<"localhost">> \/ IsNumericHost(host) \/ Len(host) < 3
                    THEN <<>> ELSE ParentDomain(host))

\* expiresSeconds: -1 stands for any negative number, 0 for null or 0
setCookie(jar, value, expiresSeconds, time) ==
  DocumentCookieSet(jar, host, encodeURIComponent(value),
                    IF expiresSeconds > 0 THEN time + expiresSeconds ELSE 0,
                    IF host = <<"localhost">> \/ IsNumericHost(host) \/ Len(host) < 3
                    THEN <<>> ELSE ParentDomain(host))

\* the browser hides a cookie whose Expires date has passed; the first
\* cookie of the name is the one returned
getCookie(jar, time) ==
  LET seen == SelectSeq(jar, LAMBDA c : c.exp = 0 \/ time < c.exp)
  IN  IF seen = <<>> THEN NoToken ELSE decodeURIComponent(Head(seen).tok)

\* setCookie(name, '', -1) followed by the three expired writes: host-only,
\* domain=<hostname>, domain=.<parent domain>
deleteCookie(jar, time) ==
  LET j1 == setCookie(jar, "", -1, time)
      j2 == DocumentCookieSet(j1, host, "", -1, <<>>)
      j3 == DocumentCookieSet(j2, host, "", -1, host)
  IN  IF Len(host) >= 3 THEN DocumentCookieSet(j3, host, "", -1, ParentDomain(host))
      ELSE j3

\* ------------------------------------------- utils/dom: probes, classifier
\* The probes read the document and the navigator.  doc says what
\* document.cookie does: "enabled" keeps what is written, "disabled" ignores
\* it, "throws" raises on access, "none" when there is no document.
areCookiesEnabled(doc) == IF doc = "enabled" THEN TRUE ELSE FALSE

supportsCookies(doc) ==
  CASE doc = "none"     -> TRUE
    [] doc = "enabled"  -> TRUE
    [] doc = "disabled" -> FALSE
    [] OTHER            -> TRUE

\* userAgent is <<>> when navigator or its userAgent is missing
isUserAgentBot(userAgent) ==
  /\ userAgent # <<>>
  /\ \E pattern \in {<<"google", "bot">>, <<"bing", "bot">>, <<"bot">>,
                     <<"crawler">>, <<"spider">>, <<"scraper">>} :
        Includes(LowerSeq(userAgent), pattern)

\* plugins is navigator.plugins.length, languages navigator.languages, webgl
\* the unmasked renderer ("throws": the WebGL probe raises)
isHeadlessBrowser(e) ==
  \/ e.plugins = 0
  \/ e.languages = <<>>
  \/ e.webgl = "Google SwiftShader"

CACHE_DURATION == 60000
\* Date.now() advances by this many milliseconds when the clock ticks
TickMs == 30000

NoDetection == [mode |-> "null", result |-> FALSE, timestamp |-> -1]
Fresh(entry, time) ==
  entry # NoDetection /\ (time - entry.timestamp) * TickMs < CACHE_DURATION

\* isSearchEngineBot with 'strict' computed like 'combined'
isSearchEngineBot_StrictAny(cache, mode, e, time) ==
  LET result == isUserAgentBot(e.userAgent) \/ isHeadlessBrowser(e) \/ ~supportsCookies(e.doc)
  IN  [cache |-> [mode |-> mode, result |-> result, timestamp |-> time], result |-> result]

isSearchEngineBot(cache, mode, e, time) ==
  IF cache # NoDetection /\ cache.mode = mode
     /\ (time - cache.timestamp) * TickMs < CACHE_DURATION
  THEN [cache |-> cache, result |-> cache.result]
  ELSE LET result ==
             CASE mode = "ua"       -> isUserAgentBot(e.userAgent)
               [] mode = "headless" -> isHeadlessBrowser(e)
               [] mode = "cookies"  -> ~supportsCookies(e.doc)
               [] mode = "combined" -> \/ isUserAgentBot(e.userAgent)
                                       \/ isHeadlessBrowser(e)
                                       \/ ~supportsCookies(e.doc)
               [] mode = "strict"   -> /\ isUserAgentBot(e.userAgent)
                                       /\ (isHeadlessBrowser(e) \/ ~supportsCookies(e.doc))
               [] OTHER             -> isUserAgentBot(e.userAgent)
       IN  [cache |-> [mode |-> mode, result |-> result, timestamp |-> time],
            result |-> result]

\* ------------------------------------------------------------ config values
\* A referenceId and a metadata object are named; their text is a sequence of
\* code points.
ReferenceIdLimit == 50
MetadataLimit    == 256

\* new TextEncoder().encode(s).length: the UTF-8 length of each code point
Utf8Len(c) == IF c < 128 THEN 1 ELSE IF c < 2048 THEN 2 ELSE IF c < 65536 THEN 3 ELSE 4
\* the bytes of the encoding: byte b of code point k
EncodedLength(s) ==
  Cardinality({x \in (1..Len(s)) \X (1..4) : x[2] <= Utf8Len(s[x[1]])})

Repeat(c, n) == [k \in 1..n |-> c]

\* the text of a referenceId: two short ones, ASCII text of 50 and 51
\* characters, 25 two-byte characters, 17 three-byte characters
RefChars(r) ==
  CASE r = "r1"      -> <<114, 49>>
    [] r = "r2"      -> <<114, 50>>
    [] r = "ascii50" -> Repeat(97, 50)
    [] r = "ascii51" -> Repeat(97, 51)
    [] r = "wide50"  -> Repeat(233, 25)
    [] r = "wide51"  -> Repeat(8364, 17)
    [] OTHER         -> <<>>

\* a metadata object {k: "..."}: the text of its one value
MetaValue(m) ==
  CASE m = "m256" -> Repeat(97, 248)
    [] m = "m257" -> Repeat(97, 249)
    [] m = "w256" -> Repeat(233, 124)
    [] OTHER      -> <<97>>

\* JSON.stringify of {k: value}: {"k":"value"}
JSONstringify(m) == <<123, 34, 107, 34, 58, 34>> \o MetaValue(m) \o <<34, 125>>

\* -------------------------------------------------------------- core/Modal
HasIframe(d)  == \E k \in 1..Len(d) : d[k].iframe
HasOverlay(d) == Len(d) > 0
HasModalEl(d) == \E k \in 1..Len(d) : d[k].modal
RemoveAt(q, k) == SubSeq(q, 1, k - 1) \o SubSeq(q, k + 1, Len(q))
FirstWith(d, P(_)) == CHOOSE k \in 1..Len(d) : P(d[k]) /\ \A j \in 1..(k-1) : ~P(d[j])
LastOf(q, x) == CHOOSE k \in 1..Len(q) : q[k] = x /\ \A j \in (k+1)..Len(q) : q[j] # x

\* Modal.cleanup: removeElement('agemin-overlay') takes the first element with
\* that id; the key handler of this Modal is unregistered
ModalCleanup(S, i) ==
  [S EXCEPT !.dom  = IF Len(@) > 0 THEN Tail(@) ELSE @,
            !.keyH = IF S.obj[i].esc /\ (\E k \in 1..Len(@) : @[k] = i)
                     THEN RemoveAt(@, LastOf(@, i)) ELSE @,
            !.obj[i].esc = FALSE]

\* Modal.close: with an overlay and an agemin-modal element in the document
\* the teardown waits for the 300 ms animation, otherwise it is immediate
ModalClose(S, i) ==
  IF HasOverlay(S.dom) /\ HasModalEl(S.dom)
  THEN [S EXCEPT !.timers = Append(@, i)]
  ELSE ModalCleanup(S, i)

\* Modal.openIframe.  compact = isSmallScreen() at this moment.  blocked = the
\* document refuses the append (document.body missing): nothing is mounted
\* and the call throws.  An overlay element is recorded with the Modal whose
\* close control it carries (owner), whether it holds an agemin-modal element
\* (the desktop layout), whether it holds the agemin-iframe element (the
\* close control sits beside the iframe and leaves the document with it) and
\* the reference_id of the iframe's URL.  (verificationWindow, the spinner
\* and the scroll lock are read by nothing modelled here and are left out.)
ModalOpenIframe(S, i, url, compact, blocked) ==
  IF blocked THEN S
  ELSE [S EXCEPT !.dom = Append(@, [owner |-> i, modal |-> ~compact, iframe |-> TRUE,
                                    ref |-> url.reference_id, metadata |-> url.metadata,
                                    height |-> 0]),                \* height: auto
                 !.keyH = IF compact THEN @ ELSE Append(@, i),
                 !.obj[i].esc = IF compact THEN @ ELSE TRUE]

\* Modal.updateHeight(height) in a window innerHeight px high; small is what
\* isSmallScreen() answers.  getElementById('agemin-modal') is the first
\* element of that id.  Heights are in px, innerHeight a multiple of 10.
updateHeight(d, height, innerHeight, small) ==
  IF small \/ ~HasModalEl(d) THEN d
  ELSE LET IsModal(e) == e.modal
           minHeight == 400
           maxHeight == (innerHeight * 9) \div 10
           atLeast   == IF height > minHeight THEN height ELSE minHeight
           clampedHeight == IF atLeast < maxHeight THEN atLeast ELSE maxHeight
       IN  [d EXCEPT ![FirstWith(d, IsModal)].height = clampedHeight]

\* Agemin.handleResize(data): a missing or zero data.height is skipped
handleResize(S, height, innerHeight, small) ==
  IF height # 0 THEN [S EXCEPT !.dom = updateHeight(@, height, innerHeight, small)]
  ELSE S

\* ---------------------------------------------------------------- promises
FreeProms(pr) == {p \in PromIds : pr[p].st = "none"}
NewPromise(pr) == CHOOSE p \in FreeProms(pr) : \A q \in FreeProms(pr) : p <= q

RECURSIVE Closure(_, _, _)
Closure(pr, F, n) ==
  IF n = 0 THEN F
  ELSE Closure(pr, F \cup {q \in PromIds : pr[q].follows \in F}, n - 1)
\* p and every promise that adopted it, directly or through others
Followers(pr, p) == Closure(pr, {p}, MaxPromises)

\* a resolve/reject function is called: no effect on a promise that is settled
\* or that has already adopted another one
SettleP(S, p, st) ==
  IF S.prom[p].st = "pending" /\ S.prom[p].follows = 0
  THEN [S EXCEPT !.prom = [q \in PromIds |->
                   IF q \in Followers(S.prom, p) /\ S.prom[q].st = "pending"
                   THEN [S.prom[q] EXCEPT !.st = st] ELSE S.prom[q]]]
  ELSE S

\* an async function whose promise is pd returns ret: a promise (ret.p) or a
\* promise created on the spot in state ret.v.  Returning pd itself is a
\* chaining cycle and rejects pd with a TypeError.
Adopt(S, pd, ret) ==
  IF ret.p = pd THEN SettleP(S, pd, "rej_cycle")
  ELSE IF ret.p = 0 THEN SettleP(S, pd, ret.v)
  ELSE IF S.prom[ret.p].st = "pending" THEN [S EXCEPT !.prom[pd].follows = ret.p]
  ELSE SettleP(S, pd, S.prom[ret.p].st)

\* validateSession, lines 367-379, resumed after its await: catch clears the
\* stored promise, finally clears the static flag
RunMicrotasks(S) ==
  LET W == {p \in S.wrapped : Settled(S.prom[p].st)}
  IN  IF W = {} THEN S
      ELSE [S EXCEPT !.g.verificationPromise =
                        IF \E p \in W : Rejected(S.prom[p].st) THEN 0 ELSE @,
                     !.active = FALSE,
                     !.wrapped = @ \ W]

\* ------------------------------------------------------------- core/Agemin
Ready(S) == {i \in Objs : S.obj[i].st = "ready"}
ResetGlobal(S) ==
  [S EXCEPT !.g = GIdle, !.active = FALSE]

\* Agemin.cleanup
Cleanup(S, i) == [S EXCEPT !.obj[i].cb = FALSE]

\* Agemin.close
Close(S, i) == Cleanup(ModalClose(S, i), i)

\* the callbacks of `names` that are registered on object i at this point
Invoke(S, i, names) ==
  IF S.obj[i].cb THEN [S EXCEPT !.fired = @ \cup names] ELSE S

Navigate(S, cond, where) == IF cond THEN [S EXCEPT !.nav = where] ELSE S

\* handleSuccess with the cookie never written
StoreToken_Never(S, jwt, exp, time) == S

\* Agemin.handleSuccess, lines 707-733: the token is stored when the message
\* has both jwt and exp.  data.jwt is a token or NoToken; data.exp is -1
\* when the field is missing, 0 for null or 0, otherwise the epoch.
StoreToken(S, jwt, exp, time) ==
  LET seconds == exp - time
  IN  IF jwt # NoToken /\ exp # -1
      THEN [S EXCEPT !.cookie =
               IF exp = 0 \/ seconds <= 0 THEN setCookie(@, jwt, 0, time)
               ELSE setCookie(@, jwt, seconds, time)]
      ELSE S

\* handleSuccess resolving the promise with false whatever the token says
handleSuccess_ResolvesFalse(S, i, jwt, exp, time) ==
  LET S1 == StoreToken(S, jwt, exp, time)
      S2 == Invoke(Close(S1, i), i, {"onSuccess"})
      S3 == IF S2.g.verificationResolve # 0
            THEN SettleP(S2, S2.g.verificationResolve, "res_false") ELSE S2
  IN  ResetGlobal(S3)

\* Agemin.handleSuccess
handleSuccess(S, i, jwt, exp, time) ==
  LET decoded  == decodeJWT(jwt)
      known    == jwt # NoToken /\ decoded.ok            \* isOfAge !== null
      isOfAge  == known /\ decoded.is_of_age
      S1 == StoreToken(S, jwt, exp, time)
      S2 == Close(S1, i)
      S3 == Invoke(S2, i, {"onSuccess"})
      S4 == IF known THEN Invoke(S3, i, IF isOfAge THEN {"onAgePass"} ELSE {"onAgeFail"})
            ELSE S3
      S5 == Navigate(S4, known /\ S4.obj[i].urls, IF isOfAge THEN "successUrl" ELSE "errorUrl")
      S6 == IF S5.g.verificationResolve # 0
            THEN SettleP(S5, S5.g.verificationResolve, IF isOfAge THEN "res_true" ELSE "res_false")
            ELSE S5
  IN  ResetGlobal(S6)

\* handleError deleting the cookie as well
handleError_ClearsCache(S, i, kind) ==
  LET S1 == Close(S, i)
      S2 == Invoke(S1, i, {"onError"})
      S3 == Navigate(S2, S2.obj[i].urls, "errorUrl")
      S4 == IF S3.g.verificationReject # 0
            THEN SettleP(S3, S3.g.verificationReject, kind) ELSE S3
  IN  ResetGlobal([S4 EXCEPT !.cookie = EmptyJar])

\* Agemin.handleError; kind is the value the promise is rejected with
handleError(S, i, kind) ==
  LET S1 == Close(S, i)
      S2 == Invoke(S1, i, {"onError"})
      S3 == Navigate(S2, S2.obj[i].urls, "errorUrl")
      S4 == IF S3.g.verificationReject # 0
            THEN SettleP(S3, S3.g.verificationReject, kind) ELSE S3
  IN  ResetGlobal(S4)

\* handleCancel leaving the promise alone
handleCancel_NoReject(S, i) ==
  LET S1 == Cleanup(S, i)
      S2 == Invoke(S1, i, {"onCancel", "onClose"})
      S3 == Navigate(S2, S2.obj[i].urls, "cancelUrl")
  IN  ResetGlobal(S3)

\* Agemin.handleCancel
handleCancel(S, i) ==
  LET S1 == Cleanup(S, i)
      S2 == Invoke(S1, i, {"onCancel", "onClose"})
      S3 == Navigate(S2, S2.obj[i].urls, "cancelUrl")
      S4 == IF S3.g.verificationReject # 0
            THEN SettleP(S3, S3.g.verificationReject, "rej_cancel") ELSE S3
  IN  ResetGlobal(S4)

\* Agemin.buildVerificationUrl: the parameters of the launch URL that differ
\* between attempts.  The metadata of the config is included when there is
\* one, and the metadata of the options replaces it.
buildVerificationUrl(S, i, referenceId, o) ==
  [reference_id |-> referenceId,
   metadata |-> IF o.metadata # NoMetadata THEN o.metadata ELSE S.obj[i].metadata]

\* Agemin.verifyAndWait past its guards, lines 207-288: the promise is
\* created, the handles and the flags are stored, the surface is mounted (or
\* the page is sent to the launch URL), and the promise is stored.
\* o = [mode, cb]: the options; compact and blocked are the environment's
\* answers.  The result is the new state and the promise returned.
StartAttempt(S, i, o, compact, blocked) ==
  LET p   == NewPromise(S.prom)
      ref == S.obj[i].referenceId
      url == buildVerificationUrl(S, i, ref, o)
      S1 == [S EXCEPT !.prom[p] = [st |-> "pending", follows |-> 0],
                      !.g.verificationResolve = p,
                      !.g.verificationReject = p,
                      !.g.isVerifying = TRUE,
                      !.obj[i].cb = o.cb,
                      !.g.referenceId = ref]
      S2 == IF o.mode = "redirect"
            THEN SettleP(Navigate(S1, TRUE, "launchUrl"), p, "res_false")
            ELSE IF ~blocked THEN ModalOpenIframe(S1, i, url, compact, FALSE)
            ELSE \* catch, lines 268-282
                 LET T1 == ModalOpenIframe(S1, i, url, compact, TRUE)
                     T2 == [T1 EXCEPT !.g.isVerifying = FALSE,
                                      !.g.referenceId = "null",
                                      !.g.verificationResolve = 0,
                                      !.g.verificationReject = 0]
                     T3 == handleError(T2, i, "rej_launch")
                 IN  SettleP(T3, p, "rej_launch")
      S3 == [S2 EXCEPT !.g.verificationPromise = p]
  IN  [S |-> S3, ret |-> [p |-> p, v |-> "none"]]

\* verifyAndWait without the guards of lines 187-205
verifyAndWait_Unguarded(S, i, o, compact, blocked) ==
  StartAttempt(S, i, o, compact, blocked)

\* Agemin.verifyAndWait
verifyAndWait(S, i, o, compact, blocked) ==
  IF HasIframe(S.dom)
  THEN IF S.g.verificationPromise # 0
       THEN [S |-> S, ret |-> [p |-> S.g.verificationPromise, v |-> "none"]]
       ELSE [S |-> S, ret |-> [p |-> 0, v |-> "rej_modalexists"]]
  ELSE IF S.g.verificationPromise # 0
  THEN [S |-> S, ret |-> [p |-> S.g.verificationPromise, v |-> "none"]]
  ELSE StartAttempt(S, i, o, compact, blocked)

\* Agemin.reset: the part that touches the document, lines 539-547
ResetDom(d) ==
  LET IsModal(e)  == e.modal
      IsIframe(e) == e.iframe
      d1 == IF HasModalEl(d)
            THEN [d EXCEPT ![FirstWith(d, IsModal)] =
                     [@ EXCEPT !.modal = FALSE, !.iframe = FALSE]]
            ELSE d
  IN  IF ~HasIframe(d1) THEN d1
      ELSE LET k == FirstWith(d1, IsIframe)
           IN  IF d1[k].modal
               THEN [d1 EXCEPT ![k] = [@ EXCEPT !.modal = FALSE, !.iframe = FALSE]]
               ELSE RemoveAt(d1, k)

RECURSIVE CloseModalsFrom(_, _)
CloseModalsFrom(S, i) ==
  IF i > MaxObjs THEN S
  ELSE CloseModalsFrom(IF (\E a \in Assets : S.reg[a] = i) /\ S.obj[i].st = "ready"
                       THEN ModalClose(S, i) ELSE S, i + 1)

\* Agemin.reset(assetId); a = "all" is the call without an argument
reset(S, a) ==
  LET S1 == IF a # "all"
            THEN LET inst == S.reg[a]
                     T == IF inst # 0 /\ S.obj[inst].st = "ready" THEN ModalClose(S, inst) ELSE S
                 IN  [T EXCEPT !.reg[a] = 0, !.inprog = @ \ {a}]
            ELSE [CloseModalsFrom(S, 1) EXCEPT !.reg = [b \in Assets |-> 0], !.inprog = {}]
      S2 == ResetGlobal(S1)
  IN  [S2 EXCEPT !.dom = ResetDom(@)]

\* the size checks of the constructor, lines 137-150
ExceedsLimit_Inclusive(bytes, limit) == bytes >= limit

ExceedsLimit(bytes, limit) == bytes > limit

\* the checks a first construction makes after it has registered the object,
\* lines 128-150: the reason it throws, or "ok"
ValidateConfig(r, m) ==
  IF r = "" THEN "referenceId required"
  ELSE IF ExceedsLimit(EncodedLength(RefChars(r)), ReferenceIdLimit)
  THEN "referenceId exceeds limit"
  ELSE IF m # NoMetadata /\ ExceedsLimit(EncodedLength(JSONstringify(m)), MetadataLimit)
  THEN "metadata exceeds limit"
  ELSE "ok"

\* the constructor.  a = "" and r = "" are a missing assetId and referenceId,
\* m = NoMetadata a config without metadata.  The result is the new state and
\* the object handed to the caller (0 when the constructor throws).  The
\* environment is one isSupported() accepts.
Constructor(S, a, r, m, u) ==
  IF a = "" THEN [S |-> S, ret |-> 0]
  ELSE IF S.reg[a] # 0
  THEN LET inst == S.reg[a]
       IN  IF S.obj[inst].st = "ready"
           THEN [S |-> [S EXCEPT !.obj[inst].referenceId = r,
                                 !.obj[inst].metadata = IF m # NoMetadata THEN m ELSE @],
                 ret |-> inst]
           ELSE [S |-> S, ret |-> 0]          \* instance.config is undefined
  ELSE LET n == CHOOSE k \in Objs : S.obj[k].st = "free" /\ \A j \in 1..(k-1) : S.obj[j].st # "free"
       IN  IF a \in S.inprog
           THEN \* waitForInstance finds nothing and returns the new, unset object
                [S |-> [S EXCEPT !.obj[n] = [FreeObj EXCEPT !.st = "uninit", !.assetId = a]],
                 ret |-> n]
           ELSE IF ValidateConfig(r, m) # "ok"
           THEN [S |-> [S EXCEPT !.obj[n] = [FreeObj EXCEPT !.st = "uninit", !.assetId = a],
                                 !.reg[a] = n, !.inprog = @ \cup {a}],
                 ret |-> 0]
           ELSE [S |-> [S EXCEPT !.obj[n] = [FreeObj EXCEPT !.st = "ready", !.assetId = a,
                                                           !.referenceId = r, !.metadata = m,
                                                           !.urls = u],
                                 !.reg[a] = n],
                 ret |-> n]

\* Agemin.getInstance(config)
getInstance(S, a, r, m, u) ==
  IF a = "" THEN [S |-> S, ret |-> 0]
  ELSE IF S.reg[a] # 0 THEN [S |-> S, ret |-> S.reg[a]]
  ELSE Constructor(S, a, r, m, u)

\* doValidateSession, lines 386-402 and 435-442: the read found no cookie
\* (!existingJWT), or it raised and the catch block takes over
SessionAbsent_Rethrows(existingJWT) == existingJWT \in {NoToken, ""}

SessionAbsent(existingJWT) == existingJWT \in {NoToken, "", URIError}

\* Agemin.validateSession with the synchronous part of doValidateSession
validateSession(S, i, o, compact, blocked, time) ==
  IF S.active \/ HasIframe(S.dom)
  THEN IF S.g.verificationPromise # 0
       THEN [S |-> S, ret |-> [p |-> S.g.verificationPromise, v |-> "none"]]
       ELSE [S |-> S, ret |-> [p |-> 0, v |-> "res_false"]]
  ELSE
    LET S1 == [S EXCEPT !.active = TRUE]
        existingJWT == getCookie(S1.cookie, time)
    IN  IF SessionAbsent(existingJWT)
        THEN LET r  == verifyAndWait(S1, i, o, compact, blocked)
                 pd == NewPromise(r.S.prom)
                 S2 == [r.S EXCEPT !.prom[pd] = [st |-> "pending", follows |-> 0]]
                 S3 == Adopt(S2, pd, r.ret)
             IN  [S |-> [S3 EXCEPT !.g.verificationPromise = pd, !.wrapped = @ \cup {pd}],
                  ret |-> [p |-> pd, v |-> "none"]]
        ELSE LET pd == NewPromise(S1.prom)
                 S2 == [S1 EXCEPT !.prom[pd] = [st |-> "pending", follows |-> 0],
                                  !.val = Append(@, [obj |-> i, pd |-> pd,
                                                     tok |-> existingJWT, o |-> o])]
             IN  [S |-> [S2 EXCEPT !.g.verificationPromise = pd, !.wrapped = @ \cup {pd}],
                  ret |-> [p |-> pd, v |-> "none"]]

\* doValidateSession resumed after await validateJWT, lines 405-433
doValidateSessionResume(S, k, compact, blocked, time) ==
  LET v  == S.val[k]
      S1 == [S EXCEPT !.val = RemoveAt(@, k)]
      validationResult == validateJWT(v.tok, time)
  IN  IF validationResult.isValid /\ validationResult.isOfAge
      THEN SettleP(S1, v.pd, "res_true")
      ELSE LET S2 == [S1 EXCEPT !.cookie = deleteCookie(@, time)]
               r  == verifyAndWait(S2, v.obj, v.o, compact, blocked)
           IN  Adopt(r.S, v.pd, r.ret)

\* one listener of setupMessageListener handling a parsed, trusted message
Dispatch(S, i, m, time) ==
  CASE m.type = "success" -> handleSuccess(S, i, m.jwt, m.exp, time)
    [] m.type = "error"   -> handleError(S, i, "rej_remote")
    [] m.type = "cancel"  -> handleCancel(S, i)
    [] m.type = "close"   -> Close(S, i)
    [] OTHER              -> S

\* the listeners without the origin check of lines 552-558
RECURSIVE DeliverFrom_AnyOrigin(_, _, _, _)
DeliverFrom_AnyOrigin(S, i, m, time) ==
  IF i > MaxObjs THEN S
  ELSE DeliverFrom_AnyOrigin(IF S.obj[i].st = "ready"
                             THEN RunMicrotasks(Dispatch(S, i, m, time)) ELSE S,
                             i + 1, m, time)

\* the message event reaches the listener of every constructed object, in the
\* order the listeners were added
RECURSIVE DeliverFrom(_, _, _, _)
DeliverFrom(S, i, m, time) ==
  IF i > MaxObjs THEN S
  ELSE DeliverFrom(IF S.obj[i].st = "ready" /\ isTrustedOrigin(m.origin)
                   THEN RunMicrotasks(Dispatch(S, i, m, time)) ELSE S,
                   i + 1, m, time)

\* the messages that are only passed on: handleAppReady, handleProgress,
\* handleStateChange, handleUserAction
InfoTypes == {"appReady", "progress", "stateChange", "userAction"}

\* a listener that forwards nothing
ObserverCalls_None(S, m) == <<>>

\* the observers called for message m, in the order of the listeners: each
\* constructed object whose appEventListeners holds one for the type
ObserverCalls(S, m) ==
  SelectSeq([i \in 1..MaxObjs |-> i],
            LAMBDA i : /\ S.obj[i].st = "ready"
                       /\ isTrustedOrigin(m.origin)
                       /\ m.type \in InfoTypes
                       /\ m.type \in S.obj[i].appEventListeners)

\* the keydown listeners run in the order they were added
RECURSIVE EscapeFrom(_, _)
EscapeFrom(S, hs) ==
  IF hs = <<>> THEN S
  ELSE EscapeFrom(RunMicrotasks(handleCancel(ModalClose(S, Head(hs)), Head(hs))), Tail(hs))

\* ----------------------------------------------------------------- actions
Options        == [mode : {"modal", "redirect"}, cb : {TRUE}, metadata : {NoMetadata}]
DefaultOptions == [mode |-> "modal", cb |-> TRUE, metadata |-> NoMetadata]

Trusted   == <<"https://", "verify", ".", "agemin", ".", "com">>
Untrusted == <<"https://", "evil", ".", "io">>

\* the messages a window can post: a success carries a token of toks or
\* none and an exp of exps (-1: the field is missing); from the foreign
\* origin one message of each terminal type
MessagesOf(toks, exps) ==
  [origin : {Trusted}, type : {"success"}, jwt : toks \cup {NoToken}, exp : exps]
  \cup [origin : {Trusted, Untrusted}, type : {"error", "cancel", "close"},
        jwt : {NoToken}, exp : {-1}]
  \cup [origin : {Trusted}, type : {"progress"}, jwt : {NoToken}, exp : {-1}]
  \cup [origin : {Untrusted}, type : {"success"}, jwt : {"tGood"}, exp : {0}]

\* verifyAndWait called in state S starts an attempt (lines 187-205 pass)
Starts(S) == ~HasIframe(S.dom) /\ S.g.verificationPromise = 0

\* The options are read only by a call that starts an attempt, and the layout
\* and the document only by one that mounts a surface; a call that does not
\* is made with the default options and answers.
Consults(starts, o, compact, blocked) ==
  /\ (starts \/ o = DefaultOptions)
  /\ ((starts /\ o.mode = "modal") \/ (~compact /\ ~blocked))

Assign(S, l) ==
  /\ obj' = S.obj /\ reg' = S.reg /\ inprog' = S.inprog /\ g' = S.g
  /\ active' = S.active /\ prom' = S.prom /\ wrapped' = S.wrapped /\ val' = S.val
  /\ dom' = S.dom /\ timers' = S.timers /\ keyH' = S.keyH /\ cookie' = S.cookie
  /\ fired' = S.fired /\ nav' = S.nav /\ host' = host
  /\ last' = l
  /\ UNCHANGED <<cachedDetectionResult, memo>>
  /\ Len(S.timers) <= MaxTimers
  /\ Len(S.dom) <= MaxOverlays
  /\ Len(S.keyH) <= MaxKeys
  /\ Len(S.val) <= MaxVal

\* the modes isSearchEngineBot is called with ("legacy" is not a mode it knows)
Modes == {"ua", "combined", "strict", "legacy"}

\* what the probes may find: a browser or a crawler user agent, plugins or
\* none, working, disabled or inaccessible cookies; a headless renderer; a
\* page without navigator.languages whose WebGL probe raises
Environments ==
  [userAgent : {<<"Mozilla", "/", "5.0", " ", "Chrome">>,
                <<"Mozilla", "/", "5.0", " ", "Google", "bot", "/", "2.1">>},
   plugins : {0, 3}, languages : {<<"en">>}, webgl : {"NVIDIA"},
   doc : {"enabled", "disabled", "throws"}]
  \cup {[userAgent |-> <<"Mozilla", "/", "5.0", " ", "Chrome">>, plugins |-> 3,
         languages |-> <<"en">>, webgl |-> "Google SwiftShader", doc |-> "enabled"],
        [userAgent |-> <<>>, plugins |-> 3, languages |-> <<>>, webgl |-> "throws",
         doc |-> "none"]}

\* the page is loaded; the cookie jar holds what earlier visits left
InitOn(jars, hosts) ==
  /\ obj = [i \in Objs |-> FreeObj]
  /\ reg = [a \in Assets |-> 0]
  /\ inprog = {}
  /\ g = GIdle
  /\ active = FALSE
  /\ prom = [p \in PromIds |-> NoProm]
  /\ wrapped = {}
  /\ val = <<>>
  /\ dom = <<>>
  /\ timers = <<>>
  /\ keyH = <<>>
  /\ now = 0
  /\ host \in hosts
  /\ cookie \in {IF r.tok = NoToken THEN EmptyJar
                 ELSE IF r.tok = Malformed   \* written by another script
                 THEN DocumentCookieSet(EmptyJar, host, r.tok, 0, <<>>)
                 ELSE setCookie(EmptyJar, r.tok, r.exp, 0) : r \in jars}
  /\ fired = {}
  /\ nav = "none"
  /\ cachedDetectionResult = NoDetection
  /\ memo = [m \in Modes |-> NoDetection]
  /\ last = Task("init", NoRet)

InitWith(jars) == InitOn(jars, {Hostname})

\* new Agemin(config)
Construct(a, r, m, u) ==
  \E C \in {Cur} :
    /\ IF a = "" THEN TRUE
       ELSE IF reg[a] # 0 THEN TRUE
       ELSE \E k \in Objs : obj[k].st = "free"
    /\ LET c == Constructor(C, a, r, m, u)
       IN  Assign(c.S, [Task("construct", NoRet) EXCEPT !.inst = c.ret])
    /\ UNCHANGED now

\* Agemin.getInstance(config)
GetInstance(a, r, m, u) ==
  \E C \in {Cur} :
    /\ IF a = "" THEN TRUE
       ELSE IF reg[a] # 0 THEN TRUE
       ELSE \E k \in Objs : obj[k].st = "free"
    /\ LET c == getInstance(C, a, r, m, u)
       IN  Assign(c.S, [Task("getInstance", NoRet) EXCEPT !.inst = c.ret])
    /\ UNCHANGED now

\* agemin.verify(options)
Verify(i, o, compact, blocked) ==
  \E C \in {Cur} :
    /\ obj[i].st = "ready"
    /\ FreeProms(C.prom) # {}
    /\ Consults(Starts(C), o, compact, blocked)
    /\ LET r == verifyAndWait(C, i, o, compact, blocked)
       IN  Assign(RunMicrotasks(r.S), Task("verify", r.ret))
    /\ UNCHANGED now

\* agemin.validateSession(options)
ValidateSession(i, o, compact, blocked) ==
  \E C \in {Cur} :
    /\ obj[i].st = "ready"
    /\ Cardinality(FreeProms(C.prom)) >= 2
    /\ LET passes == ~C.active /\ ~HasIframe(C.dom)
           absent == SessionAbsent(getCookie(C.cookie, now))
       IN  IF passes /\ ~absent THEN ~compact /\ ~blocked
           ELSE Consults(passes /\ Starts(C), o, compact, blocked)
    /\ LET r == validateSession(C, i, o, compact, blocked, now)
       IN  Assign(RunMicrotasks(r.S), Task("validateSession", r.ret))
    /\ UNCHANGED now

\* validateJWT completes for a suspended doValidateSession
JwtDone(k, compact, blocked) ==
  \E C \in {Cur} :
    /\ k \in 1..Len(val)
    /\ FreeProms(C.prom) # {}
    /\ LET res == validateJWT(C.val[k].tok, now)
       IN  Consults(~(res.isValid /\ res.isOfAge) /\ Starts(C),
                    C.val[k].o, compact, blocked)
    /\ Assign(RunMicrotasks(doValidateSessionResume(C, k, compact, blocked, now)),
              Task("jwtDone", [p |-> C.val[k].pd, v |-> "none"]))
    /\ UNCHANGED now

\* agemin.onAppReady / onProgress / onStateChange / onUserAction (callback)
On(i, t) ==
  \E C \in {Cur} :
    /\ obj[i].st = "ready"
    /\ Assign([C EXCEPT !.obj[i].appEventListeners = @ \cup {t}], Task("on", NoRet))
    /\ UNCHANGED now

\* a resize message from the verification origin, data.height = height; every
\* listener hands it to its Modal, and each sets the same height on the same
\* element
Resize(height, innerHeight, small) ==
  \E C \in {Cur} :
    /\ \E i \in Objs : obj[i].st = "ready"
    /\ Assign(handleResize(C, height, innerHeight, small),
              [Task("resize", [p |-> 0, v |-> IF small THEN "compact" ELSE "wide"])
                 EXCEPT !.origin = Trusted, !.arg = innerHeight])
    /\ UNCHANGED now

\* agemin.close()
CloseCall(i) ==
  \E C \in {Cur} :
    /\ obj[i].st = "ready"
    /\ Assign(Close(C, i), Task("closeCall", NoRet))
    /\ UNCHANGED now

\* Agemin.reset(assetId) and Agemin.reset()
Reset(a) ==
  \E C \in {Cur} :
    /\ Assign(reset(C, a), Task("reset", NoRet))
    /\ UNCHANGED now

\* a message event on window
Message(m) ==
  \E C \in {Cur} :
    /\ \E i \in Objs : obj[i].st = "ready"
    /\ Assign(DeliverFrom(C, 1, m, now),
              [Task(IF isTrustedOrigin(m.origin) THEN m.type ELSE "untrusted", NoRet)
                 EXCEPT !.origin = m.origin, !.emitted = ObserverCalls(C, m)])
    /\ UNCHANGED now

\* the user clicks the close control of overlay k
ClickClose(k) ==
  \E C \in {Cur} :
    /\ k \in 1..Len(dom)
    /\ dom[k].iframe
    /\ LET o == dom[k].owner
       IN  Assign(RunMicrotasks(handleCancel(ModalClose(C, o), o)),
                  Task("clickClose", NoRet))
    /\ UNCHANGED now

\* the user presses Escape
PressEscape ==
  \E C \in {Cur} :
    /\ keyH # <<>>
    /\ Assign(EscapeFrom(C, keyH), Task("escape", NoRet))
    /\ UNCHANGED now

\* the oldest close timer fires: Modal.cleanup of the Modal that set it
TimerFire ==
  \E C \in {Cur} :
    /\ timers # <<>>
    /\ Assign(ModalCleanup([C EXCEPT !.timers = Tail(@)], Head(timers)),
              Task("timer", NoRet))
    /\ UNCHANGED now

\* the Session Cache called directly: setCookie('agemin_verification', value,
\* ttl), getCookie('agemin_verification'), deleteCookie('agemin_verification')
SetCookie(value, ttl) ==
  \E C \in {Cur} :
    /\ Assign([C EXCEPT !.cookie = setCookie(@, value, ttl, now)],
              [Task("setCookie", [p |-> 0, v |-> value]) EXCEPT !.arg = ttl])
    /\ UNCHANGED now

GetCookie ==
  \E C \in {Cur} :
    /\ Assign(C, Task("getCookie", [p |-> 0, v |-> getCookie(cookie, now)]))
    /\ UNCHANGED now

DeleteCookie ==
  \E C \in {Cur} :
    /\ Assign([C EXCEPT !.cookie = deleteCookie(@, now)], Task("deleteCookie", NoRet))
    /\ UNCHANGED now

\* isSearchEngineBot(mode) in environment e
IsSearchEngineBot(mode, e) ==
  LET r    == isSearchEngineBot(cachedDetectionResult, mode, e, now)
      kept == [m \in Modes |-> IF Fresh(memo[m], now) THEN memo[m] ELSE NoDetection]
  IN  /\ cachedDetectionResult' = r.cache
      /\ memo' = IF kept[mode] # NoDetection THEN kept
                 ELSE [kept EXCEPT ![mode] = [mode |-> mode, result |-> r.result,
                                              timestamp |-> now]]
      /\ last' = Task("isSearchEngineBot", [p |-> 0, v |-> IF r.result THEN "true" ELSE "false"])
      /\ UNCHANGED <<obj, reg, inprog, g, active, prom, wrapped, val, dom, timers,
                     keyH, cookie, now, host, fired, nav>>

\* areCookiesEnabled() and supportsCookies() on a document that behaves as doc
AreCookiesEnabled(doc) ==
  \E C \in {Cur} :
    /\ Assign(C, Task("areCookiesEnabled",
                      [p |-> 0, v |-> IF areCookiesEnabled(doc) THEN "true" ELSE "false"]))
    /\ UNCHANGED now

SupportsCookies(doc) ==
  \E C \in {Cur} :
    /\ Assign(C, Task("supportsCookies",
                      [p |-> 0, v |-> IF supportsCookies(doc) THEN "true" ELSE "false"]))
    /\ UNCHANGED now

\* time passes, up to limit
TickTo(limit) ==
  \E C \in {Cur} :
    /\ now < limit
    /\ now' = now + 1
    /\ Assign([C EXCEPT !.cookie = SelectSeq(@, LAMBDA c : c.exp = 0 \/ now + 1 < c.exp)],
              Task("tick", NoRet))

\* time passes
Tick == TickTo(MaxTime)

\* ---------------------------------------------------------- specifications
\* Eight pages are explored.  Each runs the same handlers; they differ in the
\* inputs the environment draws from (SpecConstruct, SpecEnv, SpecCache,
\* SpecClassifier and SpecLayout are described where they are defined).
\*
\*   Spec         one Agemin object; both launch modes, a document that may
\*                refuse the mount, two referenceIds, redirect URLs configured
\*                or not; tokens tGood and tMinor; the clock stands still
\*   SpecSession  one Agemin object, modal launches only, no redirect URLs;
\*                every token, cookies with and without an expiry, the clock
\*   SpecMulti    two Agemin objects for two assetIds (the second is also the
\*                object built after a reset); token tGood; modal launches
\*                only, no redirect URLs
\*
\* An assignment to window.location.href is recorded in nav for the task that
\* made it.  The page is not ended there: a same-document URL, or a navigation
\* that is cancelled, leaves it running.

\* the constructor on a page that builds no second object
ConstructSole(a, r, u) ==
  /\ (reg[a] # 0 \/ obj[1].st = "free")
  /\ Construct(a, r, NoMetadata, u)

\* assetIds are interchangeable when no redirect URL is configured: the first
\* object ever built is built for a1
ConstructNamed(a, r) ==
  /\ (a = "a1" \/ obj[1].st # "free")
  /\ Construct(a, r, NoMetadata, FALSE)

SpecTokens    == {"tGood", "tMinor"}
MsgExps       == {-1, 0} \cup (1..MaxTime)
MultiExps     == {-1, 0}
MultiTokens   == {"tGood"}
ModalOptions  == {DefaultOptions}

Init == InitWith({NoCookie} \cup [tok : SpecTokens, exp : {0}])

Next ==
  \/ \E r \in RefIds, u \in BOOLEAN : ConstructSole("a1", r, u)
  \/ \E o \in Options, compact \in BOOLEAN, blocked \in BOOLEAN :
        Verify(1, o, compact, blocked)
  \/ \E o \in Options, compact \in BOOLEAN, blocked \in BOOLEAN :
        ValidateSession(1, o, compact, blocked)
  \/ \E compact \in BOOLEAN, blocked \in BOOLEAN : JwtDone(1, compact, blocked)
  \/ CloseCall(1)
  \/ \E a \in {"a1", "all"} : Reset(a)
  \/ \E m \in MessagesOf(SpecTokens, MsgExps) : Message(m)
  \/ \E k \in 1..MaxOverlays : ClickClose(k)
  \/ PressEscape
  \/ TimerFire

Spec == Init /\ [][Next]_vars

InitSession == InitWith({NoCookie} \cup [tok : Tokens, exp : 0..MaxTime])

NextSession ==
  \/ ConstructSole("a1", "r1", FALSE)
  \/ \E compact \in BOOLEAN : Verify(1, DefaultOptions, compact, FALSE)
  \/ \E compact \in BOOLEAN : ValidateSession(1, DefaultOptions, compact, FALSE)
  \/ \E compact \in BOOLEAN : JwtDone(1, compact, FALSE)
  \/ CloseCall(1)
  \/ Reset("all")
  \/ \E m \in MessagesOf(Tokens, MsgExps) : Message(m)
  \/ \E k \in 1..MaxOverlays : ClickClose(k)
  \/ PressEscape
  \/ TimerFire
  \/ Tick

SpecSession == InitSession /\ [][NextSession]_vars

InitMulti == InitWith({NoCookie} \cup [tok : MultiTokens, exp : {0}])

NextMulti ==
  \/ \E a \in Assets : ConstructNamed(a, "r1")
  \/ \E i \in Objs, compact \in BOOLEAN : Verify(i, DefaultOptions, compact, FALSE)
  \/ \E i \in Objs, compact \in BOOLEAN : ValidateSession(i, DefaultOptions, compact, FALSE)
  \/ \E compact \in BOOLEAN : JwtDone(1, compact, FALSE)
  \/ \E i \in Objs : CloseCall(i)
  \/ \E a \in Assets \cup {"all"} : Reset(a)
  \/ \E m \in MessagesOf(MultiTokens, MultiExps) : Message(m)
  \/ \E k \in 1..MaxOverlays : ClickClose(k)
  \/ PressEscape
  \/ TimerFire

SpecMulti == InitMulti /\ [][NextMulti]_vars

\* SpecConstruct: constructions and getInstance calls for one assetId with
\* every kind of config (missing fields, sizes at and beyond the limits),
\* with resets and attempts in between
ConfigAssets == {"", "a1"}
Configs ==
  {[referenceId |-> "r1",      metadata |-> NoMetadata],
   [referenceId |-> "",        metadata |-> NoMetadata],
   [referenceId |-> "ascii50", metadata |-> "m256"],
   [referenceId |-> "wide51",  metadata |-> NoMetadata],
   [referenceId |-> "r2",      metadata |-> "m257"]}

InitConstruct == InitWith({NoCookie})

NextConstruct ==
  \/ \E a \in ConfigAssets, c \in Configs : Construct(a, c.referenceId, c.metadata, FALSE)
  \/ \E a \in ConfigAssets, c \in Configs : GetInstance(a, c.referenceId, c.metadata, FALSE)
  \/ \E i \in Objs : Verify(i, DefaultOptions, FALSE, FALSE)
  \/ \E a \in {"a1", "all"} : Reset(a)
  \/ \E k \in 1..MaxOverlays : ClickClose(k)
  \/ TimerFire

SpecConstruct == InitConstruct /\ [][NextConstruct]_vars

\* SpecEnv: one Agemin object on pages of several hostnames, message events
\* from several origins, every token, the clock
Hosts == {Hostname, <<"example", ".", "com">>, <<"localhost">>,
          <<"192", ".", "168", ".", "0", ".", "1">>}
Origins == {Trusted, Untrusted,
            <<"https://", "agemin", ".", "com">>,
            <<"http://", "localhost", ":", "3000">>,
            <<"https://", "agemin", ".", "com", ".", "evil", ".", "io">>,
            <<"https://", "not", "agemin", ".", "com">>}

EnvMessages ==
  [origin : Origins, type : {"success"}, jwt : {"tGood"}, exp : {0}]
  \cup [origin : Origins, type : {"cancel"}, jwt : {NoToken}, exp : {-1}]
  \cup [origin : {Trusted, Untrusted}, type : InfoTypes \cup {"configReceived", "appError"},
        jwt : {NoToken}, exp : {-1}]

\* every token, and a signed token of age whose payload has no data.domain
EnvTokens == Tokens \cup {"tNoDomain"}

InitEnv == InitOn({NoCookie} \cup [tok : EnvTokens, exp : {0}], Hosts)

NextEnv ==
  \/ ConstructSole("a1", "r1", FALSE)
  \/ \E t \in InfoTypes : On(1, t)
  \/ ValidateSession(1, DefaultOptions, FALSE, FALSE)
  \/ JwtDone(1, FALSE, FALSE)
  \/ \E m \in EnvMessages : Message(m)
  \/ \E k \in 1..MaxOverlays : ClickClose(k)
  \/ TimerFire
  \/ Tick

SpecEnv == InitEnv /\ [][NextEnv]_vars

\* SpecCache: the Session Cache on pages of several hostnames, called
\* directly (a token, a text with reserved characters or the empty string,
\* with a negative, absent or positive lifetime) and through a verification
\* that ends with a success message; the two availability probes
CacheHosts  == Hosts \cup {<<"shop", ".", "example", ".", "co", ".", "uk">>}

CacheMessages ==
  [origin : {Trusted}, type : {"success"}, jwt : Tokens \cup {NoToken}, exp : MsgExps]

InitCache == InitOn({NoCookie} \cup [tok : {"tGood"}, exp : 0..MaxTime], CacheHosts)

NextCache ==
  \/ \E v \in {"tGood", "a;b=c", ""}, ttl \in {-1, 0} \cup (1..MaxTime) : SetCookie(v, ttl)
  \/ GetCookie
  \/ DeleteCookie
  \/ \E doc \in {"enabled", "disabled", "throws", "none"} : AreCookiesEnabled(doc)
  \/ \E doc \in {"enabled", "disabled", "throws", "none"} : SupportsCookies(doc)
  \/ ConstructSole("a1", "r1", FALSE)
  \/ Verify(1, DefaultOptions, FALSE, FALSE)
  \/ \E m \in CacheMessages : Message(m)
  \/ TimerFire
  \/ Tick

SpecCache == InitCache /\ [][NextCache]_vars

\* SpecClassifier: the classifier called in every environment while up to
\* MaxClock ticks of 30 s pass
InitClassifier == InitWith({NoCookie})

NextClassifier ==
  \/ \E mode \in Modes, e \in Environments : IsSearchEngineBot(mode, e)
  \/ TickTo(MaxClock)

SpecClassifier == InitClassifier /\ [][NextClassifier]_vars

\* the page of one asset, built with and without metadata: launches with
\* metadata in the options, on both layouts; resize messages in windows of
\* several heights; a cookie another script wrote that does not decode
InitLayout == InitWith({NoCookie, [tok |-> Malformed, exp |-> 0]})

NextLayout ==
  \/ \E m \in {NoMetadata, "m256", "m257"} :
        (reg["a1"] # 0 \/ obj[1].st = "free") /\ Construct("a1", "r1", m, FALSE)
  \/ \E compact \in BOOLEAN, m \in {NoMetadata, "m256", "m257"} :
        Verify(1, [DefaultOptions EXCEPT !.metadata = m], compact, FALSE)
  \/ ValidateSession(1, DefaultOptions, FALSE, FALSE)
  \/ JwtDone(1, FALSE, FALSE)
  \/ \E height \in {-50, 0, 300, 400, 450, 700, 1000},
        innerHeight \in {400, 500, 800, 1000}, small \in BOOLEAN :
        Resize(height, innerHeight, small)
  \/ \E m \in [origin : {Trusted}, type : {"success", "cancel"}, jwt : {"tGood"}, exp : {0}] :
        Message(m)
  \/ \E k \in 1..MaxOverlays : ClickClose(k)
  \/ TimerFire

SpecLayout == InitLayout /\ [][NextLayout]_vars

TypeOK ==
  /\ \A i \in Objs : obj[i].st \in {"free", "uninit", "ready"}
  /\ \A p \in PromIds : prom[p].follows \in 0..MaxPromises
  /\ Len(timers) <= MaxTimers /\ Len(dom) <= MaxOverlays
  /\ Len(keyH) <= MaxKeys /\ Len(val) <= MaxVal

\* ------------------------------------------------------------------ claims
\* an attempt whose promise can still be settled through the stored handles
AttemptPending ==
  /\ g.verificationReject # 0
  /\ prom[g.verificationReject].st = "pending"

\* an attempt is in flight as the guards of verifyAndWait and validateSession
\* see it: a promise is stored, the iframe is mounted, or a validateSession
\* is running
InFlight == g.verificationPromise # 0 \/ HasIframe(dom) \/ active \/ val # <<>>

\* full validation succeeds and the token says of age
ValidOfAge(t, time) ==
  t # NoToken /\ validateJWT(t, time).isValid /\ validateJWT(t, time).isOfAge

\* C1: a verify() or validateSession() made while an attempt is in flight
\* returns the stored promise, still pending, and mounts nothing.
C1_CallInFlightGetsPendingPromise ==
  [][(InFlight /\ last'.op \in {"verify", "validateSession"})
       => /\ last'.ret.p # 0
          /\ last'.ret.p = Ren(g.verificationPromise)
          /\ prom'[last'.ret.p].st = "pending"
          /\ dom' = dom]_vars

\* C2: in every reachable state at most one overlay holds an agemin-iframe
\* element.
C2_AtMostOneSurface == Cardinality({k \in 1..Len(dom) : dom[k].iframe}) <= 1

\* two objects for two assetIds, an orphan overlay beside the mounted surface,
\* and a call that was handed the stored promise
C2_Witness ==
  /\ obj[1].st = "ready" /\ obj[2].st = "ready"
  /\ obj[1].assetId # obj[2].assetId
  /\ Len(dom) = 2 /\ HasIframe(dom)
  /\ last.op \in {"verify", "validateSession"}
  /\ last.ret.p # 0 /\ last.ret.p = g.verificationPromise

\* C3: when the validation of the cached token completes and the token is not
\* both valid and of age, the cookie is cleared, the surface is mounted and
\* the promise of the validateSession call stays pending.
C3_InvalidCacheRelaunches ==
  [][(val # <<>> /\ ~ValidOfAge(Head(val).tok, now) /\ last'.op = "jwtDone")
       => /\ getCookie(cookie', now') = NoToken
          /\ HasIframe(dom')
          /\ prom'[last'.ret.p].st = "pending"]_vars

\* C4: a validateSession() call is settled true with no surface mounted only
\* on the strength of a cached token that is valid and of age (the cookie at
\* the call, or the token the call read from it when its validation ends),
\* and the cookie is then left as it was.
C4_TrueWithoutSurfaceIffValidCache ==
  [][(/\ last'.op \in {"validateSession", "jwtDone"}
      /\ last'.ret.p # 0
      /\ prom'[last'.ret.p].st = "res_true"
      /\ ~HasIframe(dom'))
       => /\ IF last'.op = "jwtDone" THEN ValidOfAge(Head(val).tok, now)
             ELSE ValidOfAge(getCookie(cookie, now), now)
          /\ cookie' = cookie]_vars

\* the Agemin object 1 calls validateSession() in modal mode, the document
\* accepts the mount, no session is cached and nothing is in flight
FreshValidateSession(compact) ==
  /\ last'.op = "validateSession"
  /\ ~InFlight
  /\ getCookie(cookie, now) = NoToken
  /\ ValidateSession(1, DefaultOptions, compact, FALSE)

\* the pending attempt was launched by a validateSession() call: the stored
\* promise is the one of that call and it has adopted the promise behind the
\* stored handles
SessionAttempt ==
  /\ g.verificationPromise # 0
  /\ g.verificationPromise \in wrapped
  /\ prom[g.verificationPromise].st = "pending"
  /\ g.verificationResolve # 0
  /\ prom[g.verificationPromise].follows = g.verificationResolve
  /\ HasIframe(dom)

\* validateSession() with nothing cached mounts the surface with the object's
\* referenceId and returns a pending promise; a success message with a valid
\* of-age token and an exp of exps that reaches that attempt resolves the
\* promise true with the token in the cookie
ScenarioA(exps) ==
  /\ \A compact \in BOOLEAN :
       FreshValidateSession(compact)
         => /\ \E k \in 1..Len(dom') : dom'[k].iframe /\ dom'[k].ref = obj[1].referenceId
            /\ last'.ret.p # 0
            /\ prom'[last'.ret.p].st = "pending"
  /\ \A m \in MessagesOf(SpecTokens, exps) :
       (/\ last'.op = "success"
        /\ m.type = "success" /\ m.origin = Trusted
        /\ ValidOfAge(m.jwt, now)
        /\ SessionAttempt
        /\ Message(m))
         => /\ prom'[Ren(g.verificationPromise)].st = "res_true"
            /\ getCookie(cookie', now') = m.jwt

C6_CloseCancelsAttempt ==
  [][(AttemptPending /\ last'.op \in {"close", "closeCall"})
       => /\ prom'[Ren(g.verificationReject)].st = "rej_cancel"
          /\ g' = GIdle
          /\ ~(AttemptPending' /\ ~HasIframe(dom'))]_vars

\* C7: a cancel message, a click on the close control or the Escape key,
\* while an attempt is pending, rejects its promise with the cancellation
\* error (not the error of an error message) and resets the global state.
C7_CancelRejectsAndResets ==
  [][(AttemptPending /\ last'.op \in {"cancel", "clickClose", "escape"})
       => /\ prom'[Ren(g.verificationReject)].st = "rej_cancel"
          /\ (g.verificationPromise # 0
                /\ g.verificationReject \in Reach(prom, {g.verificationPromise}, MaxPromises)
              => prom'[Ren(g.verificationPromise)].st = "rej_cancel")
          /\ g' = GIdle
          /\ active' = FALSE]_vars

\* a dismissal by the user on a page with two objects has rejected the
\* promise with the cancellation error and left the global state idle
C7_Witness ==
  /\ last.op \in {"clickClose", "escape"}
  /\ obj[2].st = "ready"
  /\ \E p \in PromIds : prom[p].st = "rej_cancel"
  /\ g = GIdle /\ ~active

\* C8: a success, error, cancel or close message that arrives when nothing is
\* in flight changes neither the cookie nor any promise, invokes no callback
\* and navigates nowhere.
C8_LateTerminalMessageIgnored ==
  [][(/\ ~InFlight /\ ~AttemptPending
      /\ last'.op \in {"success", "error", "cancel", "close"})
       => /\ cookie' = cookie
          /\ \A p \in Live : prom'[Ren(p)].st = prom[p].st
          /\ fired' = {}
          /\ nav' = "none"]_vars

\* C9: a success message changes the cookie only to a token that passes full
\* validation.
C9_OnlyValidatedTokenStored ==
  [][(last'.op = "success" /\ cookie' # cookie)
       => validateJWT(getCookie(cookie', now'), now).isValid]_vars

\* C10: an error message while an attempt is pending rejects its promise with
\* the error of the message and leaves the cookie as it was.
C10_ErrorRejectsCacheUntouched ==
  [][(AttemptPending /\ last'.op = "error")
       => /\ prom'[Ren(g.verificationReject)].st = "rej_remote"
          /\ cookie' = cookie]_vars

\* an error message has rejected a pending promise while a token was cached
C10_Witness ==
  /\ last.op = "error"
  /\ \E p \in PromIds : prom[p].st = "rej_remote"
  /\ getCookie(cookie, now) # NoToken

\* a verify() or validateSession() call of object 1 that passes every guard
\* and reaches Modal.openIframe, on a document that answers `blocked`
LaunchCall(o, compact, blocked) ==
  /\ last'.op \in {"verify", "validateSession"}
  /\ o.mode = "modal"
  /\ ~HasIframe(dom) /\ g.verificationPromise = 0
  /\ \/ last'.op = "verify" /\ Verify(1, o, compact, blocked)
     \/ /\ last'.op = "validateSession"
        /\ ~active /\ getCookie(cookie, now) = NoToken
        /\ ValidateSession(1, o, compact, blocked)

\* C11: when Modal.openIframe throws during a launch, the promise handed to
\* the caller is rejected, the onError callback given with the call is
\* invoked, and no surface is mounted.
C11_LaunchErrorReported ==
  [][\A o \in Options, compact \in BOOLEAN :
       LaunchCall(o, compact, TRUE)
         => /\ last'.ret.p # 0
            /\ Rejected(prom'[last'.ret.p].st)
            /\ "onError" \in fired'
            /\ ~HasIframe(dom')]_vars

\* the task before this one was a call whose launch failed
LaunchJustFailed ==
  /\ last.op \in {"verify", "validateSession"}
  /\ last.ret.p # 0
  /\ prom[last.ret.p].st = "rej_launch"

\* C12: the call that follows a failed launch, on a document that now accepts
\* the mount, opens the surface and hands out a pending promise.
C12_LaunchErrorRetry ==
  [][\A o \in Options, compact \in BOOLEAN :
       (/\ last'.op \in {"verify", "validateSession"}
        /\ LaunchJustFailed
        /\ o.mode = "modal"
        /\ \/ last'.op = "verify" /\ Verify(1, o, compact, FALSE)
           \/ last'.op = "validateSession" /\ ValidateSession(1, o, compact, FALSE))
         => /\ HasIframe(dom')
            /\ last'.ret.p # 0
            /\ prom'[last'.ret.p].st = "pending"]_vars

\* the callbacks a terminal event of type op must invoke; jwt is the token of
\* a success message
CallbacksDue(op, jwt) ==
  CASE op = "success" ->
         {"onSuccess"} \cup (IF jwt # NoToken /\ decodeJWT(jwt).ok
                             THEN (IF decodeJWT(jwt).is_of_age THEN {"onAgePass"}
                                   ELSE {"onAgeFail"})
                             ELSE {})
    [] op = "error" -> {"onError"}
    [] OTHER -> {"onCancel"}

\* C13: a success, error or cancel message, or a dismissal by the user, that
\* ends a pending attempt whose callbacks are registered invokes onSuccess
\* (and onAgePass or onAgeFail by the token), onError, or onCancel.
C13_TerminalCallbacksFire ==
  [][/\ \A m \in MessagesOf(SpecTokens, MsgExps) :
          (/\ last'.op \in {"success", "error", "cancel"}
           /\ m.type = last'.op /\ m.origin = Trusted
           /\ AttemptPending /\ obj[1].cb
           /\ Message(m))
            => CallbacksDue(m.type, m.jwt) \subseteq fired'
     /\ (/\ last'.op \in {"clickClose", "escape"}
         /\ AttemptPending /\ obj[1].cb)
           => "onCancel" \in fired']_vars

\* this step is new Agemin(config) or Agemin.getInstance(config) for assetId a
\* with the referenceId and metadata of c
ConstructionCall(a, c) ==
  \/ last'.op = "construct" /\ Construct(a, c.referenceId, c.metadata, FALSE)
  \/ last'.op = "getInstance" /\ GetInstance(a, c.referenceId, c.metadata, FALSE)

\* C14: a construction or getInstance call for an assetId that has an object
\* in the registry returns that object and leaves the registry entry alone.
C14_RegisteredInstanceReturned ==
  [][\A a \in ConfigAssets \ {""}, c \in Configs :
       (/\ last'.op \in {"construct", "getInstance"}
        /\ reg[a] # 0
        /\ ConstructionCall(a, c))
         => /\ last'.inst = reg[a]
            /\ reg'[a] = reg[a]]_vars

\* the sizes the construction-time validation allows
ConfigWithinLimits(r, m) ==
  /\ EncodedLength(RefChars(r)) \in 1..ReferenceIdLimit
  /\ (m = NoMetadata \/ EncodedLength(JSONstringify(m)) <= MetadataLimit)

\* C15: a construction or getInstance call with a valid config, made while
\* the creation lock of its assetId is set, returns a fully initialised
\* object, the one the registry holds for the assetId.
C15_LockedConstructionResolves ==
  [][\A a \in ConfigAssets \ {""}, c \in Configs :
       (/\ last'.op \in {"construct", "getInstance"}
        /\ a \in inprog
        /\ ConfigWithinLimits(c.referenceId, c.metadata)
        /\ ConstructionCall(a, c))
         => /\ last'.inst # 0
            /\ obj'[last'.inst].st = "ready"
            /\ reg'[a] = last'.inst]_vars

\* C16: every initialised object in the registry has a referenceId of 1 to 50
\* encoded bytes and metadata of at most 256 encoded bytes.
C16_RegisteredConfigValid ==
  \A a \in Assets :
    (reg[a] # 0 /\ obj[reg[a]].st = "ready")
      => ConfigWithinLimits(obj[reg[a]].referenceId, obj[reg[a]].metadata)

C18_UntrustedMessageDropped ==
  [][last'.op = "untrusted"
       => /\ g' = Cur.g /\ active' = active
          /\ reg' = reg /\ inprog' = inprog /\ obj' = obj
          /\ cookie' = cookie
          /\ dom' = dom /\ timers' = timers /\ keyH' = keyH
          /\ prom' = Cur.prom /\ wrapped' = Cur.wrapped /\ val' = Cur.val
          /\ fired' = {} /\ nav' = "none"]_vars

\* a message from a foreign origin was dropped while an attempt was pending
\* with its surface mounted, on a page with two objects
C18_Witness ==
  /\ last.op = "untrusted"
  /\ last.origin = Untrusted
  /\ AttemptPending /\ HasIframe(dom)
  /\ obj[1].st = "ready" /\ obj[2].st = "ready"

\* the host of an origin: the text between the scheme and the port
HostOfOrigin(origin) == BeforeColon(Tail(origin))

\* C19: a message event is handled only when the host of its origin is one
\* of the allow-listed hosts.
C19_OnlyAllowListedHosts ==
  (last.origin # <<>> /\ last.op # "untrusted")
    => HostOfOrigin(last.origin) \in trustedDomains

\* the domain binding rule: without a claimed domain the current host must be
\* a local address; with one, the current host is the claimed domain or a
\* dot-subdomain of it, whatever the case of the letters
DomainBinding(claimed, current) ==
  IF claimed = <<>> THEN IsLocalHostname(current)
  ELSE \/ LowerSeq(current) = LowerSeq(claimed)
       \/ EndsWith(LowerSeq(current), <<".">> \o LowerSeq(claimed))

\* C20: the token a validateSession() call read from the cookie validates
\* exactly when its signature verifies, it has not expired and the domain
\* binding holds on the page's host.
C20_ValidIffAllThree ==
  val # <<>>
    => LET t == Head(val).tok
       IN  validateJWT(t, now).isValid
             <=> /\ TokDecodable(t) /\ TokSigOk(t)
                 /\ TokExp(t) > now
                 /\ DomainBinding(TokDomain(t), host)

\* C21: for the claimed domain of the token a validateSession() call read and
\* the page's host, isValidDomain gives the reference rule's answer: without
\* a claimed domain only a local host passes, with one only that host or a
\* dot-subdomain of it passes.
C21_DomainBindingRule ==
  val # <<>>
    => (isValidDomain(TokDomain(Head(val).tok), host)
          <=> DomainBinding(TokDomain(Head(val).tok), host))

\* C22: a read that follows a store returns the value stored, and a read that
\* follows a clear returns nothing, on every host.
C22_StoreReadClear ==
  [][/\ (last.op = "setCookie" /\ last'.op = "getCookie")
          => last'.ret.v = last.ret.v
     /\ (last.op = "deleteCookie" /\ last'.op = "getCookie")
          => last'.ret.v = NoToken]_vars

C24_SuccessResolvesByHint ==
  [][\A m \in CacheMessages :
       (/\ last'.op = "success"
        /\ AttemptPending
        /\ Message(m))
         => prom'[Ren(g.verificationResolve)].st =
              IF m.jwt # NoToken /\ TokDecodable(m.jwt) /\ TokOfAge(m.jwt)
              THEN "res_true" ELSE "res_false"]_vars

\* a promise resolved true by a success message whose token says is_of_age
\* but carries a signature that does not verify
C24_Witness ==
  /\ last.op = "success"
  /\ \E p \in PromIds : prom[p].st = "res_true"
  /\ getCookie(cookie, now) = "tBadSig"
  /\ g = GIdle

\* C25: a call that finds the classifier's cache empty returns, in mode
\* 'combined', whether any of the three signals (crawler signature, headless
\* environment, storage unavailable) is raised; in mode 'strict', whether the
\* signature is raised together with one of the other two; in a mode it does
\* not know, what the signature mode returns.
C25_ModesCombineSignals ==
  [][\A mode \in {"combined", "strict", "legacy"}, e \in Environments :
       (/\ last'.op = "isSearchEngineBot"
        /\ cachedDetectionResult = NoDetection
        /\ IsSearchEngineBot(mode, e))
         => LET signature == isUserAgentBot(e.userAgent)
                headless  == isHeadlessBrowser(e)
                noStorage == ~supportsCookies(e.doc)
            IN  (last'.ret.v = "true")
                  <=> CASE mode = "combined" -> signature \/ headless \/ noStorage
                        [] mode = "strict"   -> signature /\ (headless \/ noStorage)
                        [] OTHER -> isSearchEngineBot(NoDetection, "ua", e, now).result]_vars

\* the first call made on the page, in mode 'strict', answered true
C25_Witness ==
  /\ last.op = "isSearchEngineBot" /\ last.ret.v = "true"
  /\ now = 0
  /\ cachedDetectionResult.mode = "strict"
  /\ \A m \in Modes \ {"strict"} : memo[m] = NoDetection

\* C26: a call in a mode whose result was computed less than a minute ago
\* returns that result without computing it again, whatever calls in other
\* modes were made since; a call in a mode without such a result computes it.
C26_MemoPerMode ==
  [][last'.op = "isSearchEngineBot"
       => LET mode == cachedDetectionResult'.mode
          IN  IF Fresh(memo[mode], now)
              THEN /\ (last'.ret.v = "true") <=> memo[mode].result
                   /\ cachedDetectionResult'.timestamp = memo[mode].timestamp
              ELSE cachedDetectionResult'.timestamp = now]_vars

\* C27: a Session Cache availability probe made on a document whose cookie
\* access raises an exception returns true.
C27_ProbeFailureMeansAvailable ==
  [][(\/ last'.op = "areCookiesEnabled" /\ AreCookiesEnabled("throws")
      \/ last'.op = "supportsCookies" /\ SupportsCookies("throws"))
       => last'.ret.v = "true"]_vars

\* C28: a step that ends a pending attempt whose surface is mounted (a
\* success, error, cancel or close message, a click on the close control,
\* Escape, or close()) closes the surface, clears the callbacks, clears the
\* stored promise with its handles and isVerifying, and clears
\* isVerificationActive.
C28_TerminalTransitionResets ==
  [][(/\ last'.op \in {"success", "error", "cancel", "close", "clickClose",
                       "escape", "closeCall"}
      /\ AttemptPending /\ HasIframe(dom))
       => /\ ~HasIframe(dom') \/ timers' # <<>>
          /\ \A i \in Objs : ~obj'[i].cb
          /\ g' = GIdle
          /\ ~active']_vars

\* C29: an iframe is mounted only while the stored verification promise is
\* pending, and while the stored promise of a launched attempt is pending
\* exactly one iframe is mounted.
C29_SurfaceIffPendingPromise ==
  LET pending == g.verificationPromise # 0 /\ prom[g.verificationPromise].st = "pending"
  IN  /\ HasIframe(dom) => pending
      /\ (pending /\ g.verificationResolve # 0)
           => Cardinality({k \in 1..Len(dom) : dom[k].iframe}) = 1

\* C30: a promise stored in the global state is pending.
C30_StoredPromisePending ==
  g.verificationPromise # 0 => prom[g.verificationPromise].st = "pending"

\* C31: a terminal step leaves the registry alone, and a verify() or (with
\* nothing cached) validateSession() call made as the next task on a document
\* that accepts the mount opens the surface and hands out a pending promise
\* that the stored handles settle.
C31_RelaunchAfterTerminal ==
  [][/\ last'.op \in {"success", "error", "cancel", "clickClose", "escape"}
          => reg' = reg
     /\ \A compact \in BOOLEAN :
          (/\ last'.op \in {"verify", "validateSession"}
           /\ last.op \in {"success", "error", "cancel", "clickClose", "escape"}
           /\ g = GIdle /\ ~active
           /\ \/ last'.op = "verify" /\ Verify(1, DefaultOptions, compact, FALSE)
              \/ /\ last'.op = "validateSession"
                 /\ getCookie(cookie, now) = NoToken
                 /\ ValidateSession(1, DefaultOptions, compact, FALSE))
            => /\ HasIframe(dom')
               /\ last'.ret.p # 0
               /\ prom'[last'.ret.p].st = "pending"
               /\ AttemptPending']_vars

\* C32: while an attempt is pending and its iframe is mounted, the
\* referenceId of the object that launched it equals the reference_id of the
\* launch URL and the referenceId stored in the global state.
C32_AttemptIdentityFixed ==
  AttemptPending
    => \A k \in 1..Len(dom) :
         dom[k].iframe
           => /\ obj[dom[k].owner].referenceId = dom[k].ref
              /\ g.referenceId = dom[k].ref

C34_InformationalFrame ==
  [][last'.op \in InfoTypes \cup {"configReceived", "appError"}
       => /\ LET C == Cur     \* the promises and handles, as the page can reach them
              IN  <<obj', reg', inprog', g', active', prom', wrapped', val', cookie',
                    dom', timers', keyH'>>
                    = <<C.obj, C.reg, C.inprog, C.g, C.active, C.prom, C.wrapped, C.val,
                        C.cookie, C.dom, C.timers, C.keyH>>
          /\ UNCHANGED <<obj, reg, inprog, active, cookie, dom, timers, keyH>>
          /\ \A i \in Objs :
               (\E k \in 1..Len(last'.emitted) : last'.emitted[k] = i)
                 <=> (obj[i].st = "ready" /\ last'.op \in obj[i].appEventListeners)]_vars

C34_Witness ==
  /\ last.op = "progress"
  /\ last.emitted = <<1>>
  /\ AttemptPending
  /\ obj[1].appEventListeners = {"progress"}

\* C35: after a resize message with a height on the wide layout, with the
\* modal in the document, the height set on it is at least 400 px and at most
\* 90% of the window's height; on the compact layout the document is left as
\* it was.
C35_HeightWithinBounds ==
  [][last'.op = "resize"
       => /\ (last'.ret.v = "wide" /\ HasModalEl(dom) /\ dom' # dom)
               => \A k \in 1..Len(dom') :
                    dom'[k].height # dom[k].height
                      => /\ dom'[k].height >= 400
                         /\ 10 * dom'[k].height <= 9 * last'.arg
          /\ last'.ret.v = "compact" => dom' = dom]_vars

\* C36: a construction that throws leaves the registry and the creation lock
\* as they were.
C36_FailedConstructionLeavesNothing ==
  [][(last'.op = "construct" /\ last'.inst = 0)
       => reg' = reg /\ inprog' = inprog]_vars

\* C37: a success message resolves the pending promise with true only when
\* the token it carries passes validateJWT (signature, expiry, domain) and
\* says is_of_age.
C37_TrueOnlyOnValidatedToken ==
  [][\A m \in CacheMessages :
       (/\ last'.op = "success"
        /\ AttemptPending
        /\ Message(m)
        /\ prom'[Ren(g.verificationResolve)].st = "res_true")
         => /\ m.jwt # NoToken
            /\ validateJWT(m.jwt, now).isValid
            /\ validateJWT(m.jwt, now).isOfAge]_vars

\* C38: a success, error or cancel message that arrives while an attempt is
\* pending and its iframe mounted leaves the page as the handler of the
\* object that launched the attempt leaves it: no other object writes the
\* cookie, navigates, starts a timer or changes anything else.
C38_OnlyLauncherActs ==
  [][(/\ last'.op \in {"success", "error", "cancel"}
      /\ AttemptPending
      /\ HasIframe(dom))
       => LET C == Cur
              IsIframe(e) == e.iframe
              launcher == dom[FirstWith(dom, IsIframe)].owner
          IN  \E m \in MessagesOf(MultiTokens, MultiExps) :
                /\ m.type = last'.op /\ m.origin = last'.origin
                /\ LET E == RunMicrotasks(Dispatch(C, launcher, m, now))
                   IN  <<obj', reg', g', active', prom', wrapped', val', dom', timers',
                         keyH', cookie', nav', fired'>>
                         = <<E.obj, E.reg, E.g, E.active, E.prom, E.wrapped, E.val, E.dom,
                             E.timers, E.keyH, E.cookie, E.nav, E.fired>>]_vars

\* C39: the metadata of the launch URL of every mounted iframe serialises to
\* at most 256 bytes.
C39_LaunchMetadataWithinLimit ==
  \A k \in 1..Len(dom) :
    (dom[k].iframe /\ dom[k].metadata # NoMetadata)
      => EncodedLength(JSONstringify(dom[k].metadata)) <= MetadataLimit

\* C40: a reset that leaves the object that launched the pending attempt in
\* the registry (a reset of another assetId) leaves the stored promise and
\* handles, the flags and the document as they were, and the attempt pending.
C40_ResetOfOtherAssetFrame ==
  [][(/\ last'.op = "reset"
      /\ AttemptPending
      /\ HasIframe(dom)
      /\ LET IsIframe(e) == e.iframe
             launcher == dom[FirstWith(dom, IsIframe)].owner
         IN  reg'[obj[launcher].assetId] = launcher)
       => /\ g' = Cur.g
          /\ active' = active
          /\ dom' = dom
          /\ AttemptPending']_vars

====
